---- MODULE Spec2Model ----
(***************************************************************************)
(* Hybrid retrieval of backend/retrieval.py: tag scoping, embedding,       *)
(* vector and keyword search, Reciprocal Rank Fusion and the reranker      *)
(* chain (Cohere, then GPT-4o-mini, then the first top_k candidates).      *)
(*                                                                         *)
(* A chunk is identified by its "id"; its "document_id" is DocOf[id].      *)
(* The fields the pipeline attaches to a chunk dict (rrf_score) are held   *)
(* in functions keyed by chunk id.  Fused scores are exact rationals,      *)
(* kept as integers in units of 1 / (10 * Scale); weights are in tenths.   *)
(*                                                                         *)
(* Chunking of backend/ingest.py (chunk_text): a string is a sequence of   *)
(* runs [k, n, at]: n characters of kind k ("x" word character, "t" one    *)
(* of . ! ?, "s" space, "n" newline), the first of them standing at        *)
(* offset at of the input text (-1 for a separator chunk_text inserts).    *)
(***************************************************************************)
EXTENDS Integers, Sequences, FiniteSets, TLC

VARIABLES
    pc,              \* position of the running call
    top_k,           \* top_k argument of retrieve / rerank
    tags,            \* retrieve: TRUE when a non-empty tags list was passed
    doc_ids,         \* retrieve: NoDocIds, or the set from _get_tagged_doc_ids
    vec_results,     \* vector hits (retrieve) / vector_results (rrf_fuse)
    kw_results,      \* keyword hits (retrieve) / keyword_results (rrf_fuse)
    vector_weight,   \* rrf_fuse argument, in tenths
    keyword_weight,  \* rrf_fuse argument, in tenths
    scores,          \* rrf_fuse: chunk id -> fused score ("rrf_score")
    chunk_map,       \* rrf_fuse: chunk id -> list whose dict is kept
    fused,           \* rrf_fuse: returned list of chunk ids
    cohereKey,       \* settings.COHERE_API_KEY is set
    chunks,          \* rerank: the candidate list
    cohereResp,      \* outcome of the co.rerank call
    llmResp,         \* outcome of the chat.completions call
    calls,           \* external calls issued so far, in order
    failed,          \* the calls among them that raised
    result,          \* returned list
    raised,          \* "no", or the call whose exception reached the caller
    text,            \* chunk_text: the text argument
    max_chars,       \* chunk_text: the max_chars argument
    packed,          \* chunk_text: chunks after the packing loop
    kept,            \* chunk_text: chunks after the short-chunk filter
    final,           \* chunk_text: returned list of strings
    ipc,             \* concurrent retrieve: position of each invocation
    frame,           \* concurrent retrieve: local variables of each invocation
    documents,       \* ingest: rows of knowledge_documents, by id
    stored,          \* ingest: number of tax_law_chunks rows of each document
    job              \* ingest: local variables of the running operation

chunkVars == <<text, max_chars, packed, kept, final>>
parVars == <<ipc, frame>>
ingestVars == <<documents, stored, job>>

vars == <<pc, top_k, tags, doc_ids, vec_results, kw_results, vector_weight,
          keyword_weight, scores, chunk_map, fused, cohereKey, chunks,
          cohereResp, llmResp, calls, failed, result, raised, chunkVars, parVars,
          ingestVars>>

\* doc_ids before any tag lookup (Python None)
NoDocIds == {"None"}
NoChunkMap == [c \in {} |-> "vector"]
NoResp == [kind |-> "none", results |-> <<>>, scores |-> <<>>]
\* chunk_text is not running
NoChunking ==
    text = <<>> /\ max_chars = 0 /\ packed = <<>> /\ kept = <<>> /\ final = <<>>

\* concurrent invocations of retrieve
Procs == {1, 2}

\* the arguments of a retrieve call and the responses its providers give it
NoRequest ==
    [top_k |-> 0, tags |-> FALSE, key |-> FALSE, tagIds |-> {},
     vecResp |-> NoResp, kwResp |-> NoResp, cohereResp |-> NoResp, llmResp |-> NoResp]

\* the local variables of retrieve before its first statement
NoFrame == [doc_ids |-> NoDocIds, vec |-> <<>>, kw |-> <<>>, chunks |-> <<>>]

\* no invocation of retrieve is running concurrently
NoInvocations ==
    /\ ipc = [p \in Procs |-> [at |-> "off", in |-> NoRequest,
                               ret |-> [kind |-> "none", list |-> <<>>]]]
    /\ frame = [p \in Procs |-> NoFrame]

MaxDocs == 2     \* most knowledge_documents rows ever inserted
MaxChunks == 2   \* most chunks chunk_text gives for one document

DocRows == 1..MaxDocs

\* no row with this id
NoRow == [status |-> "absent", total_chunks |-> 0, url |-> FALSE]

\* no ingest operation is running
NoJob == [op |-> "none", doc_id |-> 0, n |-> 0, i |-> 0, inserted |-> 0, existing |-> <<>>]

\* empty tables, no ingest operation
NoIngest ==
    /\ documents = [d \in DocRows |-> NoRow]
    /\ stored = [d \in DocRows |-> 0]
    /\ job = NoJob

\* ------------------------------------------------------------------ data

ChunkIds == {"c1", "c2", "c3"}
DocIds == {"d1", "d2"}
DocOf == [c \in ChunkIds |-> IF c = "c3" THEN "d2" ELSE "d1"]

RRF_K == 60
DefaultVectorWeight == 6
DefaultKeywordWeight == 4
\* (vector_weight, keyword_weight) pairs a caller of rrf_fuse may pass
WeightPairs == {<<DefaultVectorWeight, DefaultKeywordWeight>>, <<5, 5>>, <<4, 6>>}

MaxLen == 3      \* longest list handed to rrf_fuse on its own
MaxHits == 2     \* longest hit list a search backend returns to retrieve
MaxTopK == 3     \* largest top_k
MaxResp == 2     \* longest result list in a Cohere response

Max(a, b) == IF a > b THEN a ELSE b
Min(a, b) == IF a < b THEN a ELSE b

SeqsUpTo(S, n) == UNION {[1..k -> S] : k \in 0..n}
Range(s) == {s[i] : i \in 1..Len(s)}
DistinctSeqsUpTo(S, n) == {s \in SeqsUpTo(S, n) : Cardinality(Range(s)) = Len(s)}

\* Python s[:k], also for k < 0
Slice(s, k) ==
    LET n == IF k >= 0 THEN Min(k, Len(s)) ELSE Max(Len(s) + k, 0)
    IN  SubSeq(s, 1, n)

\* ------------------------------------------------------------- rrf_fuse

RECURSIVE Product(_, _)
Product(lo, hi) == IF lo > hi THEN 1 ELSE lo * Product(lo + 1, hi)

\* common denominator of 1/(RRF_K + rank) for every rank that can occur
Scale == Product(RRF_K + 1, RRF_K + Max(MaxLen, MaxHits))

\* mutant of Contribution: ranks counted from 0
ContributionZeroBased(weight, rank) == (weight * Scale) \div (RRF_K + rank - 1)

\* weight / (RRF_K + rank)
Contribution(weight, rank) == (weight * Scale) \div (RRF_K + rank)

NoScores == [c \in ChunkIds |-> 0]

\* mutant of AddRanks: the contribution replaces the running score
RECURSIVE AddRanksOverwrite(_, _, _, _)
AddRanksOverwrite(sc, list, weight, rank) ==
    IF rank > Len(list) THEN sc
    ELSE AddRanksOverwrite([sc EXCEPT ![list[rank]] = Contribution(weight, rank)],
                           list, weight, rank + 1)

\* for rank, chunk in enumerate(list, 1): scores[cid] = scores.get(cid, 0) + w/(K+rank)
RECURSIVE AddRanks(_, _, _, _)
AddRanks(sc, list, weight, rank) ==
    IF rank > Len(list) THEN sc
    ELSE AddRanks([sc EXCEPT ![list[rank]] = @ + Contribution(weight, rank)],
                  list, weight, rank + 1)

\* mutant of FusedScores: the two weights are exchanged
FusedScoresSwapped(vec, kw, vw, kww) == AddRanks(AddRanks(NoScores, vec, kww, 1), kw, vw, 1)

\* scores after both accumulation loops
FusedScores(vec, kw, vw, kww) == AddRanks(AddRanks(NoScores, vec, vw, 1), kw, kww, 1)

\* mutant of KeyOrder: one key per list item, no de-duplication
KeyOrderNoDedup(vec, kw) == vec \o kw

RECURSIVE Dedup(_, _)
Dedup(s, seen) ==
    IF s = <<>> THEN <<>>
    ELSE IF Head(s) \in seen THEN Dedup(Tail(s), seen)
         ELSE <<Head(s)>> \o Dedup(Tail(s), seen \cup {Head(s)})

\* keys of the scores dict in insertion order: vector ids, then new keyword ids
KeyOrder(vec, kw) == Dedup(vec \o kw, {})

\* chunk_map: the vector dict is kept for an id in both lists
ChunkMapOf(vec, kw) ==
    [c \in Range(vec) \cup Range(kw) |-> IF c \in Range(vec) THEN "vector" ELSE "keyword"]

\* mutant of InsertDesc: an equal score goes in front (sort is not stable)
InsertDescUnstable(sorted, x, sc) ==
    LET before == {j \in 1..Len(sorted) : sc[sorted[j]] > sc[x]}
        n == Cardinality(before)
    IN  SubSeq(sorted, 1, n) \o <<x>> \o SubSeq(sorted, n + 1, Len(sorted))

\* mutant of InsertDesc: ascending order (reverse=True dropped)
InsertAsc(sorted, x, sc) ==
    LET before == {j \in 1..Len(sorted) : sc[sorted[j]] <= sc[x]}
        n == Cardinality(before)
    IN  SubSeq(sorted, 1, n) \o <<x>> \o SubSeq(sorted, n + 1, Len(sorted))

\* x goes behind every key whose score is >= its own (sorted is descending)
InsertDesc(sorted, x, sc) ==
    LET before == {j \in 1..Len(sorted) : sc[sorted[j]] >= sc[x]}
        n == Cardinality(before)
    IN  SubSeq(sorted, 1, n) \o <<x>> \o SubSeq(sorted, n + 1, Len(sorted))

\* sorted(scores, key=lambda x: scores[x], reverse=True): stable, descending
RECURSIVE SortedIds(_, _, _)
SortedIds(keys, sc, acc) ==
    IF keys = <<>> THEN acc
    ELSE SortedIds(Tail(keys), sc, InsertDesc(acc, Head(keys), sc))

rrf_fuse(vec, kw, vw, kww) == SortedIds(KeyOrder(vec, kw), FusedScores(vec, kw, vw, kww), <<>>)

\* --------------------------------------------------------------- rerank

\* how a function ends: it returns a list, returns None, or raises
RetNone == [kind |-> "none", list |-> <<>>]
RetList(l) == [kind |-> "list", list |-> l]
RetRaise == [kind |-> "raise", list |-> <<>>]

\* scores GPT-4o-mini may give
ScoreVals == {3, 8}
\* an element of "scores" without an "index" or "score" key
BadEntry == [index |-> -1, score |-> 0]

\* outcomes of co.rerank over n documents: an exception, or a response whose
\* results carry any indices (n is out of range)
CohereResponses(n) ==
    {[kind |-> "fail", results |-> <<>>, scores |-> <<>>]}
    \cup {[kind |-> "ok", results |-> r, scores |-> <<>>] : r \in SeqsUpTo(0..n, MaxResp)}

\* the "scores" list that gives chunk i the score f[i], or no entry when f[i] = 0
RECURSIVE EntriesOf(_, _, _)
EntriesOf(f, i, n) ==
    IF i >= n THEN <<>>
    ELSE (IF f[i] = 0 THEN <<>> ELSE <<[index |-> i, score |-> f[i]]>>) \o EntriesOf(f, i + 1, n)

\* outcomes of the chat completion over n chunks: the call raises, the content is
\* not JSON, the JSON is not an object, or it is an object whose scores list has
\* at most one entry per chunk, in index order, and perhaps a malformed element
LlmResponses(n) ==
    {[kind |-> k, results |-> <<>>, scores |-> <<>>] : k \in {"call_error", "bad_json", "not_object"}}
    \cup {[kind |-> "ok", results |-> <<>>, scores |-> EntriesOf(f, 0, n) \o tail] :
             f \in [0..(n - 1) -> {0} \cup ScoreVals], tail \in {<<>>, <<BadEntry>>}}

\* mutant of FastPath: strict comparison
FastPathStrict(cs, k) == cs = <<>> \/ Len(cs) < k

\* not chunks or len(chunks) <= top_k
FastPath(cs, k) == cs = <<>> \/ Len(cs) <= k

\* the loop over response.results: chunks[result.index], IndexError is caught
CohereReranked(cs, resp) ==
    IF resp.kind # "ok" \/ \E i \in 1..Len(resp.results) : resp.results[i] >= Len(cs)
    THEN RetNone
    ELSE RetList([i \in 1..Len(resp.results) |-> cs[resp.results[i] + 1]])

rerank_cohere(cs, k, key, resp) ==
    IF FastPath(cs, k) THEN RetList(Slice(cs, k))
    ELSE IF ~key THEN RetNone
    ELSE CohereReranked(cs, resp)

\* mutant of FallsThrough: "if result:" in place of "if result is not None:"
FallsThroughIfFalsy(r) == r.kind = "none" \/ r.list = <<>>

\* rerank goes on to rerank_with_llm
FallsThrough(r) == r.kind = "none"

\* mutant of ScoreMap: the scores of the response are not used
ScoreMapIgnored(entries, m) == m

\* score_map = {s["index"]: s["score"] for s in scores}; a later entry wins
RECURSIVE ScoreMap(_, _)
ScoreMap(entries, m) ==
    IF entries = <<>> THEN m
    ELSE ScoreMap(Tail(entries), [m EXCEPT ![Head(entries).index] = Head(entries).score])

\* mutant of LlmFallback: the except branch returns every chunk
LlmFallbackAll(cs, k) == cs

\* except Exception: return chunks[:top_k]
LlmFallback(cs, k) == Slice(cs, k)

\* the try body raises
LlmRaises(resp) ==
    resp.kind # "ok" \/ \E i \in 1..Len(resp.scores) : resp.scores[i] = BadEntry

rerank_with_llm(cs, k, resp) ==
    IF FastPath(cs, k) THEN Slice(cs, k)
    ELSE IF LlmRaises(resp) THEN LlmFallback(cs, k)
    ELSE LET n == Len(cs)
             score_map == ScoreMap(resp.scores, [i \in 0..(n - 1) |-> 0])
             scored == SortedIds([i \in 1..n |-> i - 1], score_map, <<>>)
             top == Slice(scored, k)
         IN  [i \in 1..Len(top) |-> cs[top[i] + 1]]

\* -------------------------------------------------------------- retrieve

CandidateCap == 15

\* truth value of doc_ids in "if doc_ids" / "if not doc_ids"
Truthy(ids) == ids # NoDocIds /\ ids # {}

\* mutant of EmptyScope: the empty set does not end retrieve
EmptyScopeIgnored(ids) == FALSE

\* if not doc_ids: return []
EmptyScope(ids) == ~Truthy(ids)

\* fetch_k = top_k * 6 if doc_ids else top_k * 3
FetchK(k, ids) == IF Truthy(ids) THEN k * 6 ELSE k * 3

\* outcomes of a search call with a row limit over the chunks in allowed:
\* an exception, or at most limit rows with distinct ids
SearchResponses(limit, allowed) ==
    {[kind |-> "fail", results |-> <<>>, scores |-> <<>>]}
    \cup {[kind |-> "ok", results |-> r, scores |-> <<>>] :
             r \in DistinctSeqsUpTo(allowed, Min(MaxHits, limit))}

\* chunks the keyword query can return: .in_("document_id", list(doc_ids))
KeywordScope(ids) ==
    IF ids # NoDocIds THEN {c \in ChunkIds : DocOf[c] \in ids} ELSE ChunkIds

\* outcomes of the knowledge_documents lookups of _get_tagged_doc_ids
TagResponses ==
    {[kind |-> "fail", ids |-> {}]} \cup {[kind |-> "ok", ids |-> d] : d \in SUBSET DocIds}

_get_tagged_doc_ids(resp) == IF resp.kind = "fail" THEN RetRaise ELSE RetList(<<>>)

embed_query(resp) == IF resp.kind = "fail" THEN RetRaise ELSE RetList(<<>>)

vector_search(resp) == IF resp.kind = "fail" THEN RetRaise ELSE RetList(resp.results)

\* mutant of keyword_search: the backend exception is not caught
keyword_searchPropagates(resp) == IF resp.kind = "fail" THEN RetRaise ELSE RetList(resp.results)

\* except Exception: return []
keyword_search(resp) == IF resp.kind = "fail" THEN RetList(<<>>) ELSE RetList(resp.results)

\* mutant of PostFilter: the vector hits are not filtered
PostFilterNone(vec, ids) == vec

\* [c for c in vec_results if c.get("document_id") in doc_ids]
PostFilter(vec, ids) ==
    IF ids # NoDocIds THEN SelectSeq(vec, LAMBDA c : DocOf[c] \in ids) ELSE vec

\* ------------------------------------------ chunk_text (backend/ingest.py)

\* max_token_chars = 18000
max_token_chars == 18000
\* chunks = [c for c in chunks if len(c) > 50]
MinChunkLen == 50
\* def chunk_text(text, max_chars=2000)
DefaultMaxChars == 2000

MaxParas == 3    \* most blocks joined by a blank line into one input text

Run(kind, count) == [k |-> kind, n |-> count, at |-> 0]
\* text that chunk_text inserts itself (" " or "\n\n")
Sep(kind, count) == <<[k |-> kind, n |-> count, at |-> -1]>>

\* str.isspace of the characters of a run
IsSpace(r) == r.k \in {"s", "n"}

\* len(s)
RECURSIVE StrLen(_)
StrLen(s) == IF s = <<>> THEN 0 ELSE Head(s).n + StrLen(Tail(s))

RECURSIVE LStrip(_)
LStrip(s) == IF s # <<>> /\ IsSpace(Head(s)) THEN LStrip(Tail(s)) ELSE s

RECURSIVE RStrip(_)
RStrip(s) ==
    IF s # <<>> /\ IsSpace(s[Len(s)]) THEN RStrip(SubSeq(s, 1, Len(s) - 1)) ELSE s

\* mutant of Strip: the string is left as it is
StripNone(s) == s

\* s.strip()
Strip(s) == LStrip(RStrip(s))

\* s[:c]
RECURSIVE Take(_, _)
Take(s, c) ==
    IF c <= 0 \/ s = <<>> THEN <<>>
    ELSE IF Head(s).n <= c THEN <<Head(s)>> \o Take(Tail(s), c - Head(s).n)
    ELSE <<[Head(s) EXCEPT !.n = c]>>

\* s[c:]
RECURSIVE Drop(_, _)
Drop(s, c) ==
    IF c <= 0 \/ s = <<>> THEN s
    ELSE IF Head(s).n <= c THEN Drop(Tail(s), c - Head(s).n)
    ELSE <<[Head(s) EXCEPT !.n = @ - c, !.at = IF @ < 0 THEN @ ELSE @ + c]>> \o Tail(s)

\* f"{current}{sep}{piece}" if current else piece
JoinWith(current, sep, piece) == IF current # <<>> THEN current \o sep \o piece ELSE piece

\* text.split("\n\n"): a split at every two newlines, scanning from the left
RECURSIVE SplitParas(_, _)
SplitParas(s, cur) ==
    IF s = <<>> THEN <<cur>>
    ELSE LET h == Head(s)
         IN  IF h.k = "n" /\ h.n >= 2
             THEN <<cur>> \o SplitParas((IF h.n > 2
                                         THEN <<[h EXCEPT !.n = @ - 2, !.at = @ + 2]>>
                                         ELSE <<>>) \o Tail(s), <<>>)
             ELSE SplitParas(Tail(s), Append(cur, h))

\* re.split(r"(?<=[.!?])\s+", t): a split at each whitespace stretch that
\* follows a sentence terminator
RECURSIVE SentenceParts(_, _)
SentenceParts(s, cur) ==
    IF s = <<>> THEN <<cur>>
    ELSE IF IsSpace(Head(s)) /\ cur # <<>> /\ cur[Len(cur)].k = "t"
         THEN <<cur>> \o SentenceParts(LStrip(s), <<>>)
         ELSE SentenceParts(Tail(s), Append(cur, Head(s)))

\* [s.strip() for s in parts if s.strip()]
split_by_sentences(t) ==
    LET parts == SentenceParts(t, <<>>)
    IN  SelectSeq([i \in 1..Len(parts) |-> Strip(parts[i])], LAMBDA p : p # <<>>)

\* mutant of HardCut: a last piece shorter than limit is left out
RECURSIVE HardCutFullOnly(_, _)
HardCutFullOnly(t, limit) ==
    IF StrLen(t) < limit THEN <<>>
    ELSE <<Strip(Take(t, limit))>> \o HardCutFullOnly(Drop(t, limit), limit)

\* [t[i : i + limit].strip() for i in range(0, len(t), limit)]
RECURSIVE HardCut(_, _)
HardCut(t, limit) ==
    IF StrLen(t) = 0 THEN <<>>
    ELSE <<Strip(Take(t, limit))>> \o HardCut(Drop(t, limit), limit)

\* if current: result.append(current.strip())
Flush(list, current) == IF current # <<>> THEN Append(list, Strip(current)) ELSE list

\* the loop over the sentences in split_long, and the append after it
RECURSIVE PackSentences(_, _, _, _)
PackSentences(sentences, limit, res, current) ==
    IF sentences = <<>> THEN Flush(res, current)
    ELSE LET sent == Head(sentences)
             rest == Tail(sentences)
         IN  IF StrLen(sent) > limit
             THEN PackSentences(rest, limit,
                                Flush(res, current) \o HardCut(sent, limit), <<>>)
             ELSE IF StrLen(current) + StrLen(sent) + 1 <= limit
             THEN PackSentences(rest, limit, res, JoinWith(current, Sep("s", 1), sent))
             ELSE PackSentences(rest, limit, Flush(res, current), sent)

split_long(t, limit) ==
    IF StrLen(t) <= limit THEN <<t>>
    ELSE LET sentences == split_by_sentences(t)
         IN  IF Len(sentences) > 1
             THEN PackSentences(sentences, limit, <<>>, <<>>)
             ELSE HardCut(t, limit)

\* mutant of Fits: the separator is not counted
FitsNoSeparator(current, piece, limit) == StrLen(current) + StrLen(piece) <= limit

\* len(current) + len(para) + 2 <= max_chars
Fits(current, piece, limit) == StrLen(current) + StrLen(piece) + 2 <= limit

\* mutant of PackPiece: the chunk in progress is not appended before a new one starts
PackPieceNoFlush(st, piece, limit) ==
    IF Fits(st.current, piece, limit)
    THEN [st EXCEPT !.current = JoinWith(st.current, Sep("n", 2), piece)]
    ELSE [chunks |-> st.chunks, current |-> piece]

\* one paragraph, or one piece of a long paragraph, joins the chunk in
\* progress or starts the next one
PackPiece(st, piece, limit) ==
    IF Fits(st.current, piece, limit)
    THEN [st EXCEPT !.current = JoinWith(st.current, Sep("n", 2), piece)]
    ELSE [chunks |-> Flush(st.chunks, st.current), current |-> piece]

\* for pc in split_long(para, max_token_chars)
RECURSIVE PackPieces(_, _, _)
PackPieces(st, pieces, limit) ==
    IF pieces = <<>> THEN st
    ELSE PackPieces(PackPiece(st, Head(pieces), limit), Tail(pieces), limit)

\* mutant of PackParas: a paragraph longer than max_chars is split at max_chars
RECURSIVE PackParasSplitAtMax(_, _, _)
PackParasSplitAtMax(paras, st, limit) ==
    IF paras = <<>> THEN st
    ELSE LET para == Strip(Head(paras))
         IN  IF para = <<>> THEN PackParasSplitAtMax(Tail(paras), st, limit)
             ELSE IF StrLen(para) > limit
             THEN PackParasSplitAtMax(Tail(paras),
                                      PackPieces(st, split_long(para, limit), limit),
                                      limit)
             ELSE PackParasSplitAtMax(Tail(paras), PackPiece(st, para, limit), limit)

\* for para in text.split("\n\n")
RECURSIVE PackParas(_, _, _)
PackParas(paras, st, limit) ==
    IF paras = <<>> THEN st
    ELSE LET para == Strip(Head(paras))
         IN  IF para = <<>> THEN PackParas(Tail(paras), st, limit)
             ELSE IF StrLen(para) > max_token_chars
             THEN PackParas(Tail(paras),
                            PackPieces(st, split_long(para, max_token_chars), limit),
                            limit)
             ELSE PackParas(Tail(paras), PackPiece(st, para, limit), limit)

\* chunks once the loop over the paragraphs has ended
PackedChunks(t, limit) ==
    LET st == PackParas(SplitParas(t, <<>>), [chunks |-> <<>>, current |-> <<>>], limit)
    IN  Flush(st.chunks, st.current)

\* len(c) > 50
KeepChunk(c) == StrLen(c) > MinChunkLen

\* mutant of SafetySplit: no chunk is split again
SafetySplitNone(list) == list

\* final.extend(split_long(c, max_token_chars)) or final.append(c)
RECURSIVE SafetySplit(_)
SafetySplit(list) ==
    IF list = <<>> THEN <<>>
    ELSE (IF StrLen(Head(list)) > max_token_chars
          THEN split_long(Head(list), max_token_chars)
          ELSE <<Head(list)>>) \o SafetySplit(Tail(list))

chunk_text(t, limit) == SafetySplit(SelectSeq(PackedChunks(t, limit), KeepChunk))

\* input texts: blocks joined by a blank line
Blocks ==
    { <<Run("x", 9), Run("s", 1), Run("x", 1), Run("t", 1)>>,
      <<Run("x", 49)>>, <<Run("x", 50)>>, <<Run("x", 51)>>,
      <<Run("x", 1949)>>, <<Run("x", 3000)>>, <<Run("x", 10000)>>,
      <<Run("x", 18010)>>, <<Run("x", 25000)>>, <<Run("x", 40000)>>,
      <<Run("x", 10000), Run("t", 1), Run("s", 1), Run("x", 9998), Run("t", 1)>>,
      <<Run("x", 19000), Run("t", 1), Run("s", 1), Run("x", 60), Run("t", 1)>>,
      <<Run("s", 60)>>,
      <<Run("x", 60), Run("n", 3), Run("x", 60)>> }

MaxCharsVals == {40, 100, DefaultMaxChars, 30000}

RECURSIVE JoinBlocks(_)
JoinBlocks(bs) ==
    IF bs = <<>> THEN <<>>
    ELSE IF Len(bs) = 1 THEN bs[1]
    ELSE bs[1] \o <<Run("n", 2)>> \o JoinBlocks(Tail(bs))

\* adjacent runs of one kind are one run
RECURSIVE MergeRuns(_)
MergeRuns(s) ==
    IF Len(s) < 2 THEN s
    ELSE IF s[1].k = s[2].k
         THEN MergeRuns(<<[s[1] EXCEPT !.n = @ + s[2].n]>> \o SubSeq(s, 3, Len(s)))
         ELSE <<s[1]>> \o MergeRuns(Tail(s))

\* every run gets the offset of its first character
RECURSIVE Located(_, _)
Located(s, off) ==
    IF s = <<>> THEN <<>>
    ELSE <<[Head(s) EXCEPT !.at = off]>> \o Located(Tail(s), off + Head(s).n)

Texts == {Located(MergeRuns(JoinBlocks(bs)), 0) : bs \in SeqsUpTo(Blocks, MaxParas)}

\* ------------------------------------------- specification: rrf_fuse alone

InitFuse ==
    /\ pc = "fuse"
    /\ top_k = 0 /\ tags = FALSE /\ doc_ids = NoDocIds
    /\ vec_results \in SeqsUpTo(ChunkIds, MaxLen)
    /\ kw_results \in SeqsUpTo(ChunkIds, MaxLen)
    /\ \E w \in WeightPairs : vector_weight = w[1] /\ keyword_weight = w[2]
    /\ scores = NoScores /\ chunk_map = NoChunkMap /\ fused = <<>>
    /\ cohereKey = FALSE /\ chunks = <<>>
    /\ cohereResp = NoResp /\ llmResp = NoResp
    /\ calls = <<>> /\ failed = {} /\ result = <<>> /\ raised = "no"
    /\ NoChunking /\ NoInvocations /\ NoIngest

\* rrf_fuse(vector_results, keyword_results, vector_weight, keyword_weight)
RrfFuse ==
    /\ pc = "fuse"
    /\ scores' = FusedScores(vec_results, kw_results, vector_weight, keyword_weight)
    /\ chunk_map' = ChunkMapOf(vec_results, kw_results)
    /\ fused' = rrf_fuse(vec_results, kw_results, vector_weight, keyword_weight)
    /\ result' = fused'
    /\ pc' = "done"
    /\ UNCHANGED <<top_k, tags, doc_ids, vec_results, kw_results, vector_weight,
                   keyword_weight, cohereKey, chunks, cohereResp, llmResp, calls,
                   failed, raised>>
    /\ UNCHANGED <<chunkVars, parVars, ingestVars>>

NextFuse == RrfFuse

SpecFuse == InitFuse /\ [][NextFuse]_vars

\* ------------------------------------------------ specification: rerank alone

InitRerank ==
    /\ pc = "rerank"
    /\ top_k \in -1..MaxTopK
    /\ chunks \in DistinctSeqsUpTo(ChunkIds, MaxLen)
    /\ cohereKey \in BOOLEAN
    /\ tags = FALSE /\ doc_ids = NoDocIds
    /\ vec_results = <<>> /\ kw_results = <<>>
    /\ vector_weight = DefaultVectorWeight /\ keyword_weight = DefaultKeywordWeight
    /\ scores = NoScores /\ chunk_map = NoChunkMap /\ fused = <<>>
    /\ cohereResp = NoResp /\ llmResp = NoResp
    /\ calls = <<>> /\ failed = {} /\ result = <<>> /\ raised = "no"
    /\ NoChunking /\ NoInvocations /\ NoIngest

\* mutant of AfterCohere: tier 1 is tried again when it gave no result
AfterCohereRetry(r) ==
    IF FallsThrough(r)
    THEN pc' = "rerank" /\ result' = result
    ELSE pc' = "done" /\ result' = r.list

\* rerank, lines 189-191: return the Cohere result unless it is None
AfterCohere(r) ==
    IF FallsThrough(r)
    THEN pc' = "rerank_llm" /\ result' = result
    ELSE pc' = "done" /\ result' = r.list

\* rerank_cohere returns chunks[:top_k] without a call
RerankCohereFast ==
    /\ pc = "rerank"
    /\ FastPath(chunks, top_k)
    /\ AfterCohere(rerank_cohere(chunks, top_k, cohereKey, NoResp))
    /\ UNCHANGED <<top_k, tags, doc_ids, vec_results, kw_results, vector_weight,
                   keyword_weight, scores, chunk_map, fused, cohereKey, chunks,
                   cohereResp, llmResp, calls, failed, raised>>
    /\ UNCHANGED <<chunkVars, parVars, ingestVars>>

\* no COHERE_API_KEY: rerank_cohere returns None without a call
RerankCohereNoKey ==
    /\ pc = "rerank"
    /\ ~FastPath(chunks, top_k)
    /\ ~cohereKey
    /\ AfterCohere(rerank_cohere(chunks, top_k, cohereKey, NoResp))
    /\ UNCHANGED <<top_k, tags, doc_ids, vec_results, kw_results, vector_weight,
                   keyword_weight, scores, chunk_map, fused, cohereKey, chunks,
                   cohereResp, llmResp, calls, failed, raised>>
    /\ UNCHANGED <<chunkVars, parVars, ingestVars>>

\* co.rerank is called and answers, or raises
RerankCohereCall ==
    /\ pc = "rerank"
    /\ ~FastPath(chunks, top_k)
    /\ cohereKey
    /\ \E resp \in CohereResponses(Len(chunks)) :
          /\ cohereResp' = resp
          /\ failed' = IF resp.kind = "fail" THEN failed \cup {"cohere"} ELSE failed
          /\ AfterCohere(rerank_cohere(chunks, top_k, cohereKey, resp))
    /\ calls' = Append(calls, "cohere")
    /\ UNCHANGED <<top_k, tags, doc_ids, vec_results, kw_results, vector_weight,
                   keyword_weight, scores, chunk_map, fused, cohereKey, chunks,
                   llmResp, raised>>
    /\ UNCHANGED <<chunkVars, parVars, ingestVars>>

\* rerank_with_llm: its own fast path, else the chat completion is called
RerankWithLlm ==
    /\ pc = "rerank_llm"
    /\ IF FastPath(chunks, top_k)
       THEN /\ result' = rerank_with_llm(chunks, top_k, NoResp)
            /\ UNCHANGED <<llmResp, calls, failed>>
       ELSE /\ \E resp \in LlmResponses(Len(chunks)) :
                  /\ llmResp' = resp
                  /\ failed' = IF resp.kind = "call_error" THEN failed \cup {"llm"} ELSE failed
                  /\ result' = rerank_with_llm(chunks, top_k, resp)
            /\ calls' = Append(calls, "llm")
    /\ pc' = "done"
    /\ UNCHANGED <<top_k, tags, doc_ids, vec_results, kw_results, vector_weight,
                   keyword_weight, scores, chunk_map, fused, cohereKey, chunks,
                   cohereResp, raised>>
    /\ UNCHANGED <<chunkVars, parVars, ingestVars>>

Rerank == RerankCohereFast \/ RerankCohereNoKey \/ RerankCohereCall \/ RerankWithLlm

NextRerank == Rerank

SpecRerank == InitRerank /\ [][NextRerank]_vars

\* -------------------------------------------------- specification: retrieve

Init ==
    /\ pc = "retrieve"
    /\ top_k \in 0..MaxTopK
    /\ tags \in BOOLEAN
    /\ cohereKey \in BOOLEAN
    /\ doc_ids = NoDocIds
    /\ vec_results = <<>> /\ kw_results = <<>>
    /\ vector_weight = DefaultVectorWeight /\ keyword_weight = DefaultKeywordWeight
    /\ scores = NoScores /\ chunk_map = NoChunkMap /\ fused = <<>>
    /\ chunks = <<>>
    /\ cohereResp = NoResp /\ llmResp = NoResp
    /\ calls = <<>> /\ failed = {} /\ result = <<>> /\ raised = "no"
    /\ NoChunking /\ NoInvocations /\ NoIngest

\* the exception of a call leaves retrieve
Raise(call) == pc' = "done" /\ raised' = call /\ failed' = failed \cup {call}

\* no tags: doc_ids stays None
RetrieveUnscoped ==
    /\ pc = "retrieve"
    /\ ~tags
    /\ pc' = "embed"
    /\ UNCHANGED <<top_k, tags, doc_ids, vec_results, kw_results, vector_weight,
                   keyword_weight, scores, chunk_map, fused, cohereKey, chunks,
                   cohereResp, llmResp, calls, failed, result, raised>>
    /\ UNCHANGED <<chunkVars, parVars, ingestVars>>

\* doc_ids = _get_tagged_doc_ids(tags, project_id); return [] when it is empty
ResolveTags ==
    /\ pc = "retrieve"
    /\ tags
    /\ calls' = Append(calls, "tags")
    /\ \E resp \in TagResponses :
          IF _get_tagged_doc_ids(resp).kind = "raise"
          THEN Raise("tags") /\ UNCHANGED <<doc_ids, result>>
          ELSE /\ doc_ids' = resp.ids
               /\ pc' = IF EmptyScope(resp.ids) THEN "done" ELSE "embed"
               /\ result' = <<>>
               /\ UNCHANGED <<failed, raised>>
    /\ UNCHANGED <<top_k, tags, vec_results, kw_results, vector_weight,
                   keyword_weight, scores, chunk_map, fused, cohereKey, chunks,
                   cohereResp, llmResp>>
    /\ UNCHANGED <<chunkVars, parVars, ingestVars>>

\* embedding = embed_query(query)
EmbedQuery ==
    /\ pc = "embed"
    /\ calls' = Append(calls, "embed")
    /\ \E resp \in {[kind |-> "fail"], [kind |-> "ok"]} :
          IF embed_query(resp).kind = "raise"
          THEN Raise("embed")
          ELSE pc' = "vector" /\ UNCHANGED <<failed, raised>>
    /\ UNCHANGED <<top_k, tags, doc_ids, vec_results, kw_results, vector_weight,
                   keyword_weight, scores, chunk_map, fused, cohereKey, chunks,
                   cohereResp, llmResp, result>>
    /\ UNCHANGED <<chunkVars, parVars, ingestVars>>

\* vec_results = vector_search(embedding, top_k=fetch_k, ...)
VectorSearch ==
    /\ pc = "vector"
    /\ calls' = Append(calls, "vector")
    /\ \E resp \in SearchResponses(FetchK(top_k, doc_ids), ChunkIds) :
          LET r == vector_search(resp)
          IN  IF r.kind = "raise"
              THEN Raise("vector") /\ UNCHANGED vec_results
              ELSE /\ vec_results' = r.list
                   /\ pc' = "keyword"
                   /\ UNCHANGED <<failed, raised>>
    /\ UNCHANGED <<top_k, tags, doc_ids, kw_results, vector_weight,
                   keyword_weight, scores, chunk_map, fused, cohereKey, chunks,
                   cohereResp, llmResp, result>>
    /\ UNCHANGED <<chunkVars, parVars, ingestVars>>

\* kw_results = keyword_search(query, top_k=fetch_k, ..., doc_ids=doc_ids)
KeywordSearch ==
    /\ pc = "keyword"
    /\ calls' = Append(calls, "keyword")
    /\ \E resp \in SearchResponses(FetchK(top_k, doc_ids), KeywordScope(doc_ids)) :
          LET r == keyword_search(resp)
          IN  IF r.kind = "raise"
              THEN Raise("keyword") /\ UNCHANGED kw_results
              ELSE /\ kw_results' = r.list
                   /\ pc' = "fuse_hits"
                   /\ failed' = IF resp.kind = "fail" THEN failed \cup {"keyword"} ELSE failed
                   /\ UNCHANGED raised
    /\ UNCHANGED <<top_k, tags, doc_ids, vec_results, vector_weight,
                   keyword_weight, scores, chunk_map, fused, cohereKey, chunks,
                   cohereResp, llmResp, result>>
    /\ UNCHANGED <<chunkVars, parVars, ingestVars>>

\* lines 225-230: post-filter the vector hits, fuse, hand fused[:15] to rerank
FilterAndFuse ==
    /\ pc = "fuse_hits"
    /\ vec_results' = PostFilter(vec_results, doc_ids)
    /\ scores' = FusedScores(vec_results', kw_results, DefaultVectorWeight, DefaultKeywordWeight)
    /\ chunk_map' = ChunkMapOf(vec_results', kw_results)
    /\ fused' = rrf_fuse(vec_results', kw_results, DefaultVectorWeight, DefaultKeywordWeight)
    /\ chunks' = Slice(fused', CandidateCap)
    /\ pc' = "rerank"
    /\ UNCHANGED <<top_k, tags, doc_ids, kw_results, vector_weight, keyword_weight,
                   cohereKey, cohereResp, llmResp, calls, failed, result, raised>>
    /\ UNCHANGED <<chunkVars, parVars, ingestVars>>

Next ==
    \/ RetrieveUnscoped
    \/ ResolveTags
    \/ EmbedQuery
    \/ VectorSearch
    \/ KeywordSearch
    \/ FilterAndFuse
    \/ RerankCohereFast
    \/ RerankCohereNoKey
    \/ RerankCohereCall
    \/ RerankWithLlm

Spec == Init /\ [][Next]_vars

\* ------------------------------------------ specification: chunk_text alone

InitChunk ==
    /\ pc = "chunk"
    /\ top_k = 0 /\ tags = FALSE /\ doc_ids = NoDocIds
    /\ vec_results = <<>> /\ kw_results = <<>>
    /\ vector_weight = DefaultVectorWeight /\ keyword_weight = DefaultKeywordWeight
    /\ scores = NoScores /\ chunk_map = NoChunkMap /\ fused = <<>>
    /\ cohereKey = FALSE /\ chunks = <<>>
    /\ cohereResp = NoResp /\ llmResp = NoResp
    /\ calls = <<>> /\ failed = {} /\ result = <<>> /\ raised = "no"
    /\ text \in Texts
    /\ max_chars \in MaxCharsVals
    /\ packed = <<>> /\ kept = <<>> /\ final = <<>>
    /\ NoInvocations /\ NoIngest

\* chunk_text(text, max_chars)
ChunkText ==
    /\ pc = "chunk"
    /\ pc' = "done"
    /\ packed' = PackedChunks(text, max_chars)
    /\ kept' = SelectSeq(packed', KeepChunk)
    /\ final' = chunk_text(text, max_chars)
    /\ UNCHANGED <<top_k, tags, doc_ids, vec_results, kw_results, vector_weight,
                   keyword_weight, scores, chunk_map, fused, cohereKey, chunks,
                   cohereResp, llmResp, calls, failed, result, raised, text,
                   max_chars>>
    /\ UNCHANGED <<parVars, ingestVars>>

NextChunk == ChunkText

SpecChunk == InitChunk /\ [][NextChunk]_vars

\* ------------------------- specification: ingest_pdf and _reingest_page

\* the variables of a retrieve call other than pc
callVars == <<top_k, tags, doc_ids, vec_results, kw_results, vector_weight,
              keyword_weight, scores, chunk_map, fused, cohereKey, chunks,
              cohereResp, llmResp, calls, failed, result, raised>>

\* ids the database can give a new knowledge_documents row
FreeRows == {d \in DocRows : documents[d].status = "absent"}

\* the rows _reingest_page selects: .eq("source_url", url)
RowsOfUrl ==
    LET S == {d \in DocRows : documents[d].status # "absent" /\ documents[d].url}
    IN  IF S = {} THEN <<>>
        ELSE IF Cardinality(S) = 1 THEN <<CHOOSE d \in S : TRUE>>
        ELSE [i \in 1..Cardinality(S) |->
                 CHOOSE d \in S : Cardinality({e \in S : e < d}) = i - 1]

\* doc_row: total_chunks = len(chunks), processing_status = "processing"
NewRow(n, fromUrl) == [status |-> "processing", total_chunks |-> n, url |-> fromUrl]

\* update({"processing_status": "complete", "total_chunks": inserted})
Completed(row, inserted) == [row EXCEPT !.status = "complete", !.total_chunks = inserted]

\* the operation returns
Return == pc' = "idle" /\ job' = NoJob

InitIngest ==
    /\ pc = "idle"
    /\ top_k = 0 /\ tags = FALSE /\ doc_ids = NoDocIds
    /\ vec_results = <<>> /\ kw_results = <<>>
    /\ vector_weight = DefaultVectorWeight /\ keyword_weight = DefaultKeywordWeight
    /\ scores = NoScores /\ chunk_map = NoChunkMap /\ fused = <<>>
    /\ cohereKey = FALSE /\ chunks = <<>>
    /\ cohereResp = NoResp /\ llmResp = NoResp
    /\ calls = <<>> /\ failed = {} /\ result = <<>> /\ raised = "no"
    /\ NoChunking /\ NoInvocations /\ NoIngest

\* ingest_pdf, lines 133-143: the text is extracted and chunked; without text
\* or chunks it returns an error before any row is written
IngestPdfStart ==
    /\ pc = "idle"
    /\ \E n \in 0..MaxChunks :
          IF n = 0
          THEN Return
          ELSE pc' = "ing_doc" /\ job' = [NoJob EXCEPT !.op = "ingest_pdf", !.n = n]
    /\ UNCHANGED <<documents, stored>>
    /\ UNCHANGED <<callVars, chunkVars, parVars>>

\* ingest_pdf, lines 145-165: the document row is inserted, or the insert raises
IngestPdfInsertDoc ==
    /\ pc = "ing_doc"
    /\ \/ \E d \in FreeRows :
             /\ d = CHOOSE e \in FreeRows : \A f \in FreeRows : e <= f
             /\ documents' = [documents EXCEPT ![d] = NewRow(job.n, FALSE)]
             /\ job' = [job EXCEPT !.doc_id = d]
             /\ pc' = "ing_chunk"
       \/ Return /\ UNCHANGED documents
    /\ UNCHANGED stored
    /\ UNCHANGED <<callVars, chunkVars, parVars>>

\* ingest_pdf, lines 168-186: one turn of the loop: no embedding, or the chunk
\* row is inserted, or the insert raises and is skipped
IngestPdfChunk ==
    /\ pc = "ing_chunk"
    /\ job.i < job.n
    /\ \/ job' = [job EXCEPT !.i = @ + 1] /\ UNCHANGED stored
       \/ /\ stored' = [stored EXCEPT ![job.doc_id] = @ + 1]
          /\ job' = [job EXCEPT !.i = @ + 1, !.inserted = @ + 1]
    /\ UNCHANGED <<pc, documents>>
    /\ UNCHANGED <<callVars, chunkVars, parVars>>

\* ingest_pdf, lines 189-195: the status update, or its exception is swallowed
IngestPdfUpdate ==
    /\ pc = "ing_chunk"
    /\ job.i = job.n
    /\ \/ documents' = [documents EXCEPT ![job.doc_id] = Completed(@, job.inserted)]
       \/ UNCHANGED documents
    /\ Return
    /\ UNCHANGED stored
    /\ UNCHANGED <<callVars, chunkVars, parVars>>

\* _reingest_page, lines 492-499: the rows of the url are selected, or the
\* query raises and the operation returns False
ReingestStart ==
    /\ pc = "idle"
    /\ \/ pc' = "re_delete" /\ job' = [NoJob EXCEPT !.op = "reingest", !.existing = RowsOfUrl]
       \/ Return
    /\ UNCHANGED <<documents, stored>>
    /\ UNCHANGED <<callVars, chunkVars, parVars>>

\* line 502: the chunks of an existing document are deleted, or the delete raises
ReingestDeleteChunks ==
    /\ pc = "re_delete"
    /\ job.existing # <<>>
    /\ \/ /\ stored' = [stored EXCEPT ![Head(job.existing)] = 0]
          /\ pc' = "re_delete_doc"
          /\ UNCHANGED job
       \/ Return /\ UNCHANGED stored
    /\ UNCHANGED documents
    /\ UNCHANGED <<callVars, chunkVars, parVars>>

\* line 503: the document row is deleted, or the delete raises
ReingestDeleteDoc ==
    /\ pc = "re_delete_doc"
    /\ \/ /\ documents' = [documents EXCEPT ![Head(job.existing)] = NoRow]
          /\ job' = [job EXCEPT !.existing = Tail(@)]
          /\ pc' = "re_delete"
       \/ Return /\ UNCHANGED documents
    /\ UNCHANGED stored
    /\ UNCHANGED <<callVars, chunkVars, parVars>>

\* lines 506-519: the page is scraped and chunked; an error, a short text or
\* no chunks end the operation
ReingestScrape ==
    /\ pc = "re_delete"
    /\ job.existing = <<>>
    /\ \E n \in 0..MaxChunks :
          IF n = 0
          THEN Return
          ELSE pc' = "re_doc" /\ job' = [job EXCEPT !.n = n]
    /\ UNCHANGED <<documents, stored>>
    /\ UNCHANGED <<callVars, chunkVars, parVars>>

\* lines 525-540: the document row is inserted, or the insert raises
ReingestInsertDoc ==
    /\ pc = "re_doc"
    /\ \/ \E d \in FreeRows :
             /\ d = CHOOSE e \in FreeRows : \A f \in FreeRows : e <= f
             /\ documents' = [documents EXCEPT ![d] = NewRow(job.n, TRUE)]
             /\ job' = [job EXCEPT !.doc_id = d]
             /\ pc' = "re_chunk"
       \/ Return /\ UNCHANGED documents
    /\ UNCHANGED stored
    /\ UNCHANGED <<callVars, chunkVars, parVars>>

\* lines 543-559: one turn of the loop: no embedding, or the chunk row is
\* inserted, or the insert raises and the operation returns False
ReingestChunk ==
    /\ pc = "re_chunk"
    /\ job.i < job.n
    /\ \/ job' = [job EXCEPT !.i = @ + 1] /\ UNCHANGED <<pc, stored>>
       \/ /\ stored' = [stored EXCEPT ![job.doc_id] = @ + 1]
          /\ job' = [job EXCEPT !.i = @ + 1, !.inserted = @ + 1]
          /\ UNCHANGED pc
       \/ Return /\ UNCHANGED stored
    /\ UNCHANGED documents
    /\ UNCHANGED <<callVars, chunkVars, parVars>>

\* lines 561-564: the status update, or it raises
ReingestUpdate ==
    /\ pc = "re_chunk"
    /\ job.i = job.n
    /\ \/ documents' = [documents EXCEPT ![job.doc_id] = Completed(@, job.inserted)]
       \/ UNCHANGED documents
    /\ Return
    /\ UNCHANGED stored
    /\ UNCHANGED <<callVars, chunkVars, parVars>>

NextIngest ==
    \/ IngestPdfStart
    \/ IngestPdfInsertDoc
    \/ IngestPdfChunk
    \/ IngestPdfUpdate
    \/ ReingestStart
    \/ ReingestDeleteChunks
    \/ ReingestDeleteDoc
    \/ ReingestScrape
    \/ ReingestInsertDoc
    \/ ReingestChunk
    \/ ReingestUpdate

SpecIngest == InitIngest /\ [][NextIngest]_vars

\* --------------------------- specification: concurrent calls of retrieve

\* the calls made concurrently: top_k = 1, with or without tags, and one of a
\* few responses of each provider
AllRequests ==
    {[top_k |-> 1, tags |-> t, key |-> TRUE, tagIds |-> ids,
      vecResp |-> v, kwResp |-> k, cohereResp |-> c, llmResp |-> l] :
        t \in BOOLEAN, ids \in {{"d1"}, {}},
        v \in {[kind |-> "ok", results |-> <<"c3", "c1">>, scores |-> <<>>],
               [kind |-> "ok", results |-> <<"c1", "c2">>, scores |-> <<>>],
               [kind |-> "fail", results |-> <<>>, scores |-> <<>>]},
        k \in {[kind |-> "ok", results |-> <<"c2">>, scores |-> <<>>],
               [kind |-> "fail", results |-> <<>>, scores |-> <<>>]},
        c \in {[kind |-> "ok", results |-> <<1>>, scores |-> <<>>],
               [kind |-> "fail", results |-> <<>>, scores |-> <<>>]},
        l \in {[kind |-> "ok", results |-> <<>>, scores |-> <<[index |-> 1, score |-> 8]>>],
               [kind |-> "bad_json", results |-> <<>>, scores |-> <<>>]}}

\* without tags no document ids are looked up
Requests == {r \in AllRequests : r.tags \/ r.tagIds = {}}

\* retrieve run on its own with the responses of one request
RetrieveAlone(in) ==
    LET ids == IF in.tags THEN in.tagIds ELSE NoDocIds
    IN  IF in.tags /\ EmptyScope(ids) THEN RetList(<<>>)
        ELSE IF vector_search(in.vecResp).kind = "raise" THEN RetRaise
        ELSE LET vec == PostFilter(vector_search(in.vecResp).list, ids)
                 kw == keyword_search(in.kwResp).list
                 cands == Slice(rrf_fuse(vec, kw, DefaultVectorWeight, DefaultKeywordWeight),
                                CandidateCap)
                 r1 == rerank_cohere(cands, in.top_k, in.key, in.cohereResp)
             IN  IF FallsThrough(r1)
                 THEN RetList(rerank_with_llm(cands, in.top_k, in.llmResp))
                 ELSE r1

\* mutant of Frame: the variables of retrieve are module-level, one copy for all calls
FrameShared(p) == 1

\* doc_ids, vec_results, kw_results, fused are locals: one copy per call
Frame(p) == p

InitPar ==
    /\ pc = "par"
    /\ top_k = 0 /\ tags = FALSE /\ doc_ids = NoDocIds
    /\ vec_results = <<>> /\ kw_results = <<>>
    /\ vector_weight = DefaultVectorWeight /\ keyword_weight = DefaultKeywordWeight
    /\ scores = NoScores /\ chunk_map = NoChunkMap /\ fused = <<>>
    /\ cohereKey = FALSE /\ chunks = <<>>
    /\ cohereResp = NoResp /\ llmResp = NoResp
    /\ calls = <<>> /\ failed = {} /\ result = <<>> /\ raised = "no"
    /\ NoChunking /\ NoIngest
    /\ ipc \in [Procs -> {[at |-> "retrieve", in |-> r, ret |-> RetNone] : r \in Requests}]
    /\ frame = [p \in Procs |-> NoFrame]

\* invocation p returns r
ParReturn(p, r) == ipc' = [ipc EXCEPT ![p].at = "done", ![p].ret = r]

\* invocation p moves on to its next statement
ParGoto(p, at) == ipc' = [ipc EXCEPT ![p].at = at]

\* lines 209-216: doc_ids is resolved, retrieve returns [] on an empty scope
ParResolve(p) ==
    /\ ipc[p].at = "retrieve"
    /\ LET ids == IF ipc[p].in.tags THEN ipc[p].in.tagIds ELSE NoDocIds
       IN  IF ipc[p].in.tags /\ EmptyScope(ids)
           THEN ParReturn(p, RetList(<<>>)) /\ UNCHANGED frame
           ELSE /\ frame' = [frame EXCEPT ![Frame(p)].doc_ids = ids]
                /\ ParGoto(p, "vector")
    /\ UNCHANGED <<pc, callVars, chunkVars, ingestVars>>

\* line 221: vec_results = vector_search(...)
ParVector(p) ==
    /\ ipc[p].at = "vector"
    /\ LET r == vector_search(ipc[p].in.vecResp)
       IN  IF r.kind = "raise"
           THEN ParReturn(p, RetRaise) /\ UNCHANGED frame
           ELSE /\ frame' = [frame EXCEPT ![Frame(p)].vec = r.list]
                /\ ParGoto(p, "keyword")
    /\ UNCHANGED <<pc, callVars, chunkVars, ingestVars>>

\* line 222: kw_results = keyword_search(...)
ParKeyword(p) ==
    /\ ipc[p].at = "keyword"
    /\ frame' = [frame EXCEPT ![Frame(p)].kw = keyword_search(ipc[p].in.kwResp).list]
    /\ ParGoto(p, "fuse")
    /\ UNCHANGED <<pc, callVars, chunkVars, ingestVars>>

\* lines 225-230: post-filter, fuse, fused[:15]
ParFuse(p) ==
    /\ ipc[p].at = "fuse"
    /\ LET f == frame[Frame(p)]
       IN  frame' = [frame EXCEPT ![Frame(p)].chunks =
                        Slice(rrf_fuse(PostFilter(f.vec, f.doc_ids), f.kw,
                                       DefaultVectorWeight, DefaultKeywordWeight),
                              CandidateCap)]
    /\ ParGoto(p, "rerank")
    /\ UNCHANGED <<pc, callVars, chunkVars, ingestVars>>

\* rerank, lines 189-191: tier 1
ParRerankCohere(p) ==
    /\ ipc[p].at = "rerank"
    /\ LET r == rerank_cohere(frame[Frame(p)].chunks, ipc[p].in.top_k, ipc[p].in.key,
                              ipc[p].in.cohereResp)
       IN  IF FallsThrough(r) THEN ParGoto(p, "rerank_llm") ELSE ParReturn(p, r)
    /\ UNCHANGED <<pc, frame, callVars, chunkVars, ingestVars>>

\* rerank, line 195: tier 2
ParRerankLlm(p) ==
    /\ ipc[p].at = "rerank_llm"
    /\ ParReturn(p, RetList(rerank_with_llm(frame[Frame(p)].chunks, ipc[p].in.top_k,
                                            ipc[p].in.llmResp)))
    /\ UNCHANGED <<pc, frame, callVars, chunkVars, ingestVars>>

NextPar ==
    \E p \in Procs :
        \/ ParResolve(p)
        \/ ParVector(p)
        \/ ParKeyword(p)
        \/ ParFuse(p)
        \/ ParRerankCohere(p)
        \/ ParRerankLlm(p)

SpecPar == InitPar /\ [][NextPar]_vars

\* ------------------------------------------------- properties of rrf_fuse

RECURSIVE SumOver(_, _)
SumOver(S, f) ==
    IF S = {} THEN 0
    ELSE LET x == CHOOSE y \in S : TRUE IN f[x] + SumOver(S \ {x}, f)

\* sum of weight/(RRF_K + r) over the 1-indexed ranks r at which c stands in list
RankSum(list, c, weight) ==
    SumOver({r \in 1..Len(list) : list[r] = c},
            [r \in 1..Len(list) |-> (weight * Scale) \div (RRF_K + r)])

FirstPos(list, c) == CHOOSE i \in 1..Len(list) : list[i] = c /\ \A j \in 1..(i - 1) : list[j] # c

FuseReturned == pc = "done" /\ result = fused /\ calls = <<>>

\* C8: the output of rrf_fuse holds every chunk id of either input list exactly
\* once, and each output chunk carries the sum of its contributions from both lists.
C8_FuseDedupCombined ==
    FuseReturned =>
        /\ Range(fused) = Range(vec_results) \cup Range(kw_results)
        /\ \A i, j \in 1..Len(fused) : fused[i] = fused[j] => i = j
        /\ \A c \in Range(fused) :
              scores[c] = RankSum(vec_results, c, vector_weight)
                          + RankSum(kw_results, c, keyword_weight)

\* a chunk that stands in both lists has been fused
C8_Witness ==
    /\ FuseReturned
    /\ \E c \in Range(vec_results) \cap Range(kw_results) :
          /\ c \in Range(fused)
          /\ scores[c] > RankSum(vec_results, c, vector_weight)
          /\ scores[c] > RankSum(kw_results, c, keyword_weight)
    /\ Len(fused) < Len(vec_results) + Len(kw_results)

\* C9: rrf_fuse returns its items in descending order of fused score; items with
\* equal scores keep the order of the vector list, vector items ahead of
\* keyword-only items.
C9_FuseOrder ==
    FuseReturned =>
        \A i, j \in 1..Len(fused) :
            i < j =>
                /\ scores[fused[i]] >= scores[fused[j]]
                /\ scores[fused[i]] = scores[fused[j]] =>
                      /\ fused[j] \in Range(vec_results) => fused[i] \in Range(vec_results)
                      /\ (fused[i] \in Range(vec_results) /\ fused[j] \in Range(vec_results))
                            => FirstPos(vec_results, fused[i]) < FirstPos(vec_results, fused[j])

\* two vector items tie and stand in vector order ahead of a lower third item
C9_Witness ==
    /\ FuseReturned
    /\ Len(fused) = 3
    /\ scores[fused[1]] = scores[fused[2]]
    /\ scores[fused[2]] > scores[fused[3]]
    /\ fused[1] \in Range(vec_results) /\ fused[2] \in Range(vec_results)

\* C10: vector=[c1,c2], keyword=[c2,c3], weights 0.6/0.4, K=60 fuse to [c2,c1,c3].
C10_Example ==
    (/\ FuseReturned
     /\ vec_results = <<"c1", "c2">> /\ kw_results = <<"c2", "c3">>
     /\ vector_weight = 6 /\ keyword_weight = 4 /\ RRF_K = 60)
        => fused = <<"c2", "c1", "c3">>

C10_Witness ==
    /\ FuseReturned
    /\ vec_results = <<"c1", "c2">> /\ kw_results = <<"c2", "c3">>
    /\ vector_weight = 6 /\ keyword_weight = 4
    /\ Len(fused) = 3
    /\ scores["c2"] > scores["c1"] /\ scores["c1"] > scores["c3"]

\* C11: with an empty keyword list, rrf_fuse returns the chunks of a ranked list
\* (each chunk at one rank) in the order of that list.
C11_FuseEmptyKeyword ==
    (/\ FuseReturned
     /\ kw_results = <<>>
     /\ Cardinality(Range(vec_results)) = Len(vec_results))
        => fused = vec_results

\* three ranked chunks fused with an empty keyword list
C11_Witness ==
    /\ FuseReturned
    /\ kw_results = <<>>
    /\ Len(vec_results) = 3 /\ Cardinality(Range(vec_results)) = 3
    /\ Len(fused) = 3
    /\ scores[fused[1]] > scores[fused[3]]

\* C21: the fused score of every chunk is the sum of vector_weight/(60 + r)
\* over its 1-indexed ranks r in the vector list plus keyword_weight/(60 + r)
\* over its 1-indexed ranks r in the keyword list.
C21_FusedScoreFormula ==
    FuseReturned =>
        /\ \A r \in 1..Max(Len(vec_results), Len(kw_results)) : Scale % (RRF_K + r) = 0
        /\ \A c \in ChunkIds :
              scores[c] =
                  SumOver({r \in 1..Len(vec_results) : vec_results[r] = c},
                          [r \in 1..Len(vec_results) |->
                              vector_weight * (Scale \div (RRF_K + r))])
                  + SumOver({r \in 1..Len(kw_results) : kw_results[r] = c},
                            [r \in 1..Len(kw_results) |->
                                keyword_weight * (Scale \div (RRF_K + r))])

\* default weights; one chunk stands at rank 3 of the vector list and at rank 1
\* of the keyword list, another twice in the vector list
C21_Witness ==
    /\ FuseReturned
    /\ vector_weight = DefaultVectorWeight /\ keyword_weight = DefaultKeywordWeight
    /\ vec_results = <<"c1", "c1", "c2">>
    /\ kw_results = <<"c2", "c3">>
    /\ scores["c2"] = DefaultVectorWeight * (Scale \div (RRF_K + 3))
                      + DefaultKeywordWeight * (Scale \div (RRF_K + 1))
    /\ scores["c1"] = DefaultVectorWeight * (Scale \div (RRF_K + 1))
                      + DefaultVectorWeight * (Scale \div (RRF_K + 2))

\* C22 as stated: vector=[c1,c2], keyword=[c2,c3], weights 0.6/0.4, K=60 give
\* c2 = 0.6/61 + 0.4/61, c1 = 0.6/61 and c3 = 0.4/62.
C22_ExampleScoresAsStated ==
    (/\ FuseReturned
     /\ vec_results = <<"c1", "c2">> /\ kw_results = <<"c2", "c3">>
     /\ vector_weight = 6 /\ keyword_weight = 4 /\ RRF_K = 60)
        => /\ scores["c2"] = 6 * (Scale \div 61) + 4 * (Scale \div 61)
           /\ scores["c1"] = 6 * (Scale \div 61)
           /\ scores["c3"] = 4 * (Scale \div 62)

\* C22: vector=[c1,c2], keyword=[c2,c3], weights 0.6/0.4, K=60 give
\* c2 = 0.6/62 + 0.4/61, c1 = 0.6/61 and c3 = 0.4/62.
C22_ExampleScores ==
    (/\ FuseReturned
     /\ vec_results = <<"c1", "c2">> /\ kw_results = <<"c2", "c3">>
     /\ vector_weight = 6 /\ keyword_weight = 4 /\ RRF_K = 60)
        => /\ scores["c2"] = 6 * (Scale \div 62) + 4 * (Scale \div 61)
           /\ scores["c1"] = 6 * (Scale \div 61)
           /\ scores["c3"] = 4 * (Scale \div 62)

C22_Witness ==
    /\ FuseReturned
    /\ vec_results = <<"c1", "c2">> /\ kw_results = <<"c2", "c3">>
    /\ vector_weight = 6 /\ keyword_weight = 4
    /\ scores["c2"] > 0 /\ scores["c3"] > 0 /\ scores["c3"] < scores["c1"]
    /\ result = <<"c2", "c1", "c3">>

\* --------------------------------------------------- properties of rerank

RerankCalls == SelectSeq(calls, LAMBDA c : c \in {"cohere", "llm"})

\* tier 1 was called and its response gave an ordering of the candidates
CohereOrdered ==
    /\ "cohere" \in Range(calls)
    /\ cohereResp.kind = "ok"
    /\ \A i \in 1..Len(cohereResp.results) : cohereResp.results[i] < Len(chunks)

\* tier 2 was called and failed: the call raised or the response did not parse
LlmFailed ==
    /\ "llm" \in Range(calls)
    /\ \/ llmResp.kind \in {"call_error", "bad_json", "not_object"}
       \/ \E i \in 1..Len(llmResp.scores) : llmResp.scores[i] = BadEntry

\* C1: for every candidate list, top_k >= 0 and provider behaviour, rerank returns
\* exactly min(top_k, len(candidates)) items and never raises.
C1_RerankExactCount ==
    (pc = "done" /\ top_k >= 0) =>
        (raised = "no" /\ Len(result) = Min(top_k, Len(chunks)))

\* C3: the tiers are tried in order; tier 2 is called only after tier 1 was
\* unavailable or failed, and once tier 1 has given an ordering rerank returns it
\* and calls no later tier.
C3_TierOrder ==
    /\ RerankCalls \in {<<>>, <<"cohere">>, <<"llm">>, <<"cohere", "llm">>}
    /\ "llm" \in Range(calls) => (~cohereKey \/ ("cohere" \in Range(calls) /\ ~CohereOrdered))
    /\ CohereOrdered =>
          /\ "llm" \notin Range(calls)
          /\ pc = "done"
          /\ result = [i \in 1..Len(cohereResp.results) |-> chunks[cohereResp.results[i] + 1]]

\* tier 2 answered after tier 1 was called and raised
C3_Witness ==
    /\ pc = "done"
    /\ calls = <<"cohere", "llm">>
    /\ cohereResp.kind = "fail"
    /\ llmResp.kind = "ok"

\* C4: when the primary provider is unavailable or fails and the fallback scorer
\* fails too, rerank returns the first min(top_k, len) candidates in their order,
\* without raising.
C4_BothFailIdentity ==
    (pc = "done" /\ top_k >= 0 /\ (~cohereKey \/ ~CohereOrdered) /\ LlmFailed) =>
        /\ raised = "no"
        /\ result = SubSeq(chunks, 1, Min(top_k, Len(chunks)))

\* the Cohere call raised, the scorer's answer was not JSON, 2 of 3 are returned
C4_Witness ==
    /\ pc = "done"
    /\ cohereResp.kind = "fail" /\ llmResp.kind = "bad_json"
    /\ Len(chunks) = 3 /\ top_k = 2
    /\ result = SubSeq(chunks, 1, 2)

\* C5: with len(candidates) <= top_k rerank returns the candidates unchanged and
\* calls neither provider.
C5_FastPath ==
    Len(chunks) <= top_k =>
        /\ RerankCalls = <<>>
        /\ pc = "done" => (raised = "no" /\ result = chunks)

\* as many candidates as top_k, with a Cohere key configured
C5_Witness ==
    /\ pc = "done"
    /\ cohereKey
    /\ Len(chunks) = top_k /\ top_k >= 2
    /\ result = chunks

\* C19: rerank called with a negative top_k raises.
C19_NegativeTopKRaises ==
    (pc = "done" /\ top_k < 0) => raised # "no"

\* the tier-2 response parsed and gave every candidate an integer score in 1..10
LlmFullyValid ==
    /\ llmResp.kind = "ok"
    /\ \A j \in 1..Len(llmResp.scores) : llmResp.scores[j] # BadEntry
    /\ \A i \in 0..(Len(chunks) - 1) :
          \E j \in 1..Len(llmResp.scores) :
              llmResp.scores[j].index = i /\ llmResp.scores[j].score \in 1..10

\* C20: a tier-2 response that does not score every candidate index with an
\* integer in 1..10 is a failure: rerank returns the first top_k candidates.
C20_StrictScores ==
    (pc = "done" /\ top_k >= 0 /\ "llm" \in Range(calls) /\ ~LlmFullyValid) =>
        result = SubSeq(chunks, 1, Min(top_k, Len(chunks)))

\* the score tier 2 gave the candidate at 0-based index i, 0 when it gave none
LlmScore(i) ==
    IF \E j \in 1..Len(llmResp.scores) : llmResp.scores[j].index = i
    THEN llmResp.scores[CHOOSE j \in 1..Len(llmResp.scores) : llmResp.scores[j].index = i].score
    ELSE 0

\* candidate a is ranked ahead of candidate b by tier 2
LlmAhead(a, b) ==
    LET ia == FirstPos(chunks, a) - 1
        ib == FirstPos(chunks, b) - 1
    IN  LlmScore(ia) > LlmScore(ib) \/ (LlmScore(ia) = LlmScore(ib) /\ ia < ib)

\* C29: when the tier-2 call succeeds and parses (top_k >= 0), rerank returns
\* exactly top_k distinct candidates, the best by descending tier-2 score; a
\* candidate without a score counts as 0, equal scores keep the fused order.
C29_LlmOrdering ==
    (pc = "done" /\ top_k >= 0 /\ "llm" \in Range(calls) /\ ~LlmFailed) =>
        /\ Len(result) = top_k
        /\ Range(result) \subseteq Range(chunks)
        /\ \A i, j \in 1..Len(result) : i < j => LlmAhead(result[i], result[j])
        /\ \A r \in Range(result) : \A c \in Range(chunks) \ Range(result) : LlmAhead(r, c)

\* three candidates, only the last is scored: it comes first, followed by the
\* first of the two unscored ones
C29_Witness ==
    /\ pc = "done" /\ top_k = 2 /\ "llm" \in Range(calls) /\ ~LlmFailed
    /\ Len(chunks) = 3
    /\ llmResp.scores = <<[index |-> 2, score |-> 8]>>
    /\ result = <<chunks[3], chunks[1]>>

\* ------------------------------------------------- properties of retrieve

\* C2: retrieve never raises for a provider outage (embedding, vector search,
\* keyword search, reranker tiers).
C2_RetrieveNeverRaises ==
    pc = "done" => raised \notin {"embed", "vector", "keyword", "cohere", "llm"}

\* C6: tags that resolve to no document end retrieve with [] after the tag lookup,
\* the only external call made.
C6_EmptyScopeShortCircuit ==
    (tags /\ doc_ids = {}) =>
        /\ pc = "done"
        /\ raised = "no"
        /\ result = <<>>
        /\ calls = <<"tags">>

C6_Witness ==
    /\ pc = "done"
    /\ tags /\ doc_ids = {}
    /\ top_k > 0
    /\ "tags" \in Range(calls) /\ "tags" \notin failed

\* C7: a failed keyword backend call gives an empty keyword list and no exception;
\* retrieve goes on and fuses the vector list alone.
C7_KeywordSoftFail ==
    "keyword" \in failed =>
        /\ raised = "no"
        /\ kw_results = <<>>
        /\ pc \in {"rerank", "rerank_llm", "done"} => (fused = vec_results /\ chunks = fused)

\* the keyword call failed and two vector hits were returned
C7_Witness ==
    /\ pc = "done"
    /\ "keyword" \in failed
    /\ Len(vec_results) = 2
    /\ result = vec_results

\* the hits have been post-filtered and fused
Fused == pc \in {"rerank", "rerank_llm", "done"} /\ "keyword" \in Range(calls)

\* C23: when the tags resolve to a non-empty set D of document ids, every
\* vector hit that enters fusion has its document_id in D and, the keyword
\* backend keeping to the ids it is passed, so has every result of retrieve.
C23_TagScope ==
    (tags /\ Truthy(doc_ids) /\ Fused) =>
        /\ \A c \in Range(vec_results) : DocOf[c] \in doc_ids
        /\ \A c \in Range(chunks) : DocOf[c] \in doc_ids
        /\ (pc = "done" /\ raised = "no") => \A c \in Range(result) : DocOf[c] \in doc_ids

\* a retrieve scoped to one of the two documents returns hits of both searches
C23_Witness ==
    /\ pc = "done" /\ raised = "no"
    /\ tags /\ doc_ids = {"d1"}
    /\ vec_results # <<>> /\ kw_results # <<>>
    /\ Range(kw_results) # Range(vec_results)
    /\ Len(result) = 2

\* C24: the candidates handed to rerank are the first min(15, n) items of the
\* n-item fused list, in fused order; the reranker never sees more than 15
\* candidates and retrieve never returns more than min(top_k, 15) results.
C24_CandidateCap ==
    Fused =>
        /\ chunks = SubSeq(fused, 1, Min(CandidateCap, Len(fused)))
        /\ Len(chunks) <= CandidateCap
        /\ (pc = "done" /\ raised = "no") => Len(result) <= Min(top_k, CandidateCap)

\* number of calls of one external service made so far
CallCount(c) == Cardinality({i \in 1..Len(calls) : calls[i] = c})

\* C25: within one retrieve call there is at most one embedding call, one
\* vector search, one keyword search, one tier-1 call and one tier-2 call;
\* a call that failed is not made again.
C25_NoRetry ==
    \A c \in {"embed", "vector", "keyword", "cohere", "llm"} : CallCount(c) <= 1

\* every call was made, the last three failed, and retrieve ended
C25_Witness ==
    /\ pc = "done" /\ raised = "no"
    /\ calls = <<"embed", "vector", "keyword", "cohere", "llm">>
    /\ {"keyword", "cohere", "llm"} \subseteq failed

\* ------------------------------------------------ properties of chunk_text

\* the non-blank paragraphs of a text, stripped
NonBlankParas(t) ==
    LET paras == SplitParas(t, <<>>)
    IN  SelectSeq([i \in 1..Len(paras) |-> Strip(paras[i])], LAMBDA p : p # <<>>)

\* C12: every chunk chunk_text returns has at most max_token_chars characters,
\* whatever the text and max_chars.
C12_HardLimit ==
    pc = "done" => \A i \in 1..Len(final) : StrLen(final[i]) <= max_token_chars

C12_Witness ==
    /\ pc = "done"
    /\ max_chars > max_token_chars
    /\ \E i \in 1..Len(kept) : StrLen(kept[i]) > max_token_chars
    /\ Len(final) > Len(kept)

\* paragraphs joined by a blank line
RECURSIVE JoinParas(_)
JoinParas(ps) ==
    IF ps = <<>> THEN <<>>
    ELSE JoinWith(JoinParas(SubSeq(ps, 1, Len(ps) - 1)), Sep("n", 2), ps[Len(ps)])

\* C13: when the non-blank paragraphs, joined by a blank line, fit in
\* max_chars, chunk_text returns exactly one chunk, the paragraphs joined by
\* "\n\n" (so "Paragraph A.\n\nParagraph B." with 2000 comes back whole).
C13_FitsOneChunk ==
    (/\ pc = "done"
     /\ NonBlankParas(text) # <<>>
     /\ StrLen(JoinParas(NonBlankParas(text))) <= max_chars)
        => final = <<JoinParas(NonBlankParas(text))>>

\* C14: no returned chunk is shorter than MinChunkLen unless it is the only
\* content, and a text that packs into a single short chunk gets that chunk
\* back.
C14_SoleShortChunkReturned ==
    pc = "done" =>
        /\ \A i \in 1..Len(final) : StrLen(final[i]) < MinChunkLen => Len(packed) = 1
        /\ (Len(packed) = 1 /\ StrLen(packed[1]) < MinChunkLen) => final = packed

\* C15: when every paragraph fits in max_chars and max_chars is at most
\* max_token_chars, every returned chunk is non-empty and fits in max_chars.
C15_WithinMaxChars ==
    (/\ pc = "done"
     /\ max_chars <= max_token_chars
     /\ \A i \in 1..Len(NonBlankParas(text)) : StrLen(NonBlankParas(text)[i]) <= max_chars)
        => \A i \in 1..Len(final) : StrLen(final[i]) \in 1..max_chars

C15_Witness ==
    /\ pc = "done"
    /\ max_chars <= max_token_chars
    /\ \A i \in 1..Len(NonBlankParas(text)) : StrLen(NonBlankParas(text)[i]) <= max_chars
    /\ Len(final) >= 2
    /\ \E i \in 1..Len(final) : StrLen(final[i]) = max_chars /\ Len(final[i]) > 1

\* the text is one paragraph without whitespace, longer than max_token_chars
WhitespaceFreeLong ==
    /\ text # <<>>
    /\ \A i \in 1..Len(text) : ~IsSpace(text[i])
    /\ StrLen(text) > max_token_chars

CeilDiv(a, b) == (a + b - 1) \div b

\* the i-th of the pieces of max_token_chars characters of a run of word
\* characters of length len that starts the text
CutPiece(len, i) ==
    <<[k |-> "x",
       n |-> Min(max_token_chars, len - (i - 1) * max_token_chars),
       at |-> (i - 1) * max_token_chars]>>

CutPieces(len) == [i \in 1..CeilDiv(len, max_token_chars) |-> CutPiece(len, i)]

\* C16 as stated: a whitespace-free paragraph of length L > max_token_chars
\* comes back as its ceil(L / max_token_chars) pieces cut at character
\* boundaries, in order.
C16_AllPieces ==
    (pc = "done" /\ WhitespaceFreeLong /\ Len(text) = 1)
        => final = CutPieces(StrLen(text))

\* C16: with max_chars at most max_token_chars, a whitespace-free paragraph of
\* length L > max_token_chars comes back as its ceil(L / max_token_chars)
\* pieces cut at character boundaries, in order, less a last piece of at most
\* MinChunkLen characters; 25000 characters give pieces of 18000 and 7000.
C16_PiecesKept ==
    (pc = "done" /\ WhitespaceFreeLong /\ Len(text) = 1 /\ max_chars <= max_token_chars)
        => final = SelectSeq(CutPieces(StrLen(text)), KeepChunk)

C16_Witness ==
    /\ pc = "done" /\ WhitespaceFreeLong /\ Len(text) = 1
    /\ max_chars = DefaultMaxChars
    /\ StrLen(text) = 25000
    /\ Len(final) = 2 /\ StrLen(final[1]) = 18000 /\ StrLen(final[2]) = 7000

RECURSIVE Flatten(_)
Flatten(list) == IF list = <<>> THEN <<>> ELSE Head(list) \o Flatten(Tail(list))

\* the runs of a string that are characters of the input text
ContentRuns(s) == SelectSeq(s, LAMBDA r : ~IsSpace(r) /\ r.at >= 0)

ContentLen(s) == StrLen(ContentRuns(s))

\* stretches of input characters in the order of the text, abutting stretches
\* of one kind made one
RECURSIVE Stretches(_)
Stretches(S) ==
    IF S = {} THEN <<>>
    ELSE LET m == CHOOSE r \in S : \A q \in S : r.at <= q.at
             rest == Stretches(S \ {m})
         IN  IF rest # <<>> /\ rest[1].k = m.k /\ m.at + m.n = rest[1].at
             THEN <<[m EXCEPT !.n = @ + rest[1].n]>> \o Tail(rest)
             ELSE <<m>> \o rest

\* the chunks the length filter removed
Dropped == SelectSeq(packed, LAMBDA c : c \notin Range(kept))

C18_BlankGivesNothing ==
    (pc = "done" /\ \A i \in 1..Len(text) : IsSpace(text[i])) => final = <<>>

C18_Witness ==
    /\ pc = "done"
    /\ \A i \in 1..Len(text) : IsSpace(text[i])
    /\ \E i \in 1..Len(text) : text[i].k = "n"
    /\ \E i \in 1..Len(text) : text[i].k = "s"
    /\ final = <<>>

\* C27: chunk_text drops a packed chunk exactly when it is shorter than
\* MinChunkLen: one of 50 characters is retained, one of 49 is dropped.
C27_MinLengthBoundary ==
    pc = "done" =>
        \A i \in 1..Len(packed) :
            packed[i] \notin Range(kept) <=> StrLen(packed[i]) < MinChunkLen

\* the paragraphs that are longer than max_chars and no longer than max_token_chars
LongParas ==
    {p \in Range(NonBlankParas(text)) : StrLen(p) > max_chars /\ StrLen(p) <= max_token_chars}

\* C30 as stated: a paragraph longer than max_chars but not longer than
\* max_token_chars is emitted whole as a chunk of its own.
C30_LongParagraphEmitted ==
    pc = "done" => \A p \in LongParas : p \in Range(final)

\* C30: a paragraph longer than max_chars but not longer than max_token_chars
\* is never split or merged: it is a packed chunk of its own, and it is
\* returned whole unless it has at most MinChunkLen characters.
C30_LongParagraphWhole ==
    pc = "done" =>
        \A p \in LongParas :
            /\ p \in Range(packed)
            /\ StrLen(p) > MinChunkLen => p \in Range(final)

\* a paragraph of 3000 characters between two short ones, max_chars = 2000
C30_Witness ==
    /\ pc = "done" /\ max_chars = DefaultMaxChars
    /\ Len(NonBlankParas(text)) = 3
    /\ NonBlankParas(text)[2] \in LongParas
    /\ Len(final) = 3
    /\ final[2] = NonBlankParas(text)[2]
    /\ StrLen(final[2]) > max_chars

\* ---------------------------------------------------- properties of ingest

\* C28: after any sequence of ingest operations, every document whose
\* processing_status is complete has total_chunks equal to the number of its
\* persisted chunks.
C28_CompleteCountsChunks ==
    pc = "idle" =>
        \A d \in DocRows :
            documents[d].status = "complete" => documents[d].total_chunks = stored[d]

\* ---------------------------------------- properties of concurrent calls

\* C26: under any interleaving of concurrent retrieve calls, each call returns
\* what it returns running alone with the same provider responses.
C26_Stateless ==
    \A p \in Procs : ipc[p].at = "done" => ipc[p].ret = RetrieveAlone(ipc[p].in)

\* one call has returned a chunk while another, given other vector hits, is
\* between its searches and its fusion
C26_Witness ==
    /\ ipc[1].at = "done" /\ ipc[1].ret.kind = "list" /\ ipc[1].ret.list # <<>>
    /\ ipc[2].at = "fuse"
    /\ ipc[1].in.vecResp # ipc[2].in.vecResp
    /\ frame[1].vec # frame[2].vec
    /\ frame[1].chunks # <<>>

====
